---- MODULE Spec2Model ----
(***************************************************************************)
(* The session controller of biokey-front-end.  Two variants of the        *)
(* controller exist in the repository: src/App.tsx (login-method choice,   *)
(* wallet connect, username directory) and src/App.js (wallet connect,     *)
(* fingerprint scan, on-chain register / verify).  The variable `variant`  *)
(* says which of the two components is mounted.                            *)
(*                                                                         *)
(* A state is the React state of the mounted component between two events, *)
(* together with the requests that were issued and have not settled yet.   *)
(* One action is one event: a click or keystroke handled by the component  *)
(* (guarded by what the render shows and enables), or one awaited request  *)
(* settling, which runs the rest of the async function that awaited it.    *)
(***************************************************************************)
EXTENDS Naturals, Sequences, FiniteSets, Bags, TLC

VARIABLES
    variant,            \* "tsx" | "js": which App component is mounted
    ethereum,           \* window.ethereum is defined
    account,            \* useState('')
    contract,           \* useState(null): "null" or the address the handle is bound to
    fingerprintData,    \* useState('')
    status,             \* useState('Disconnected'), after the mount effect
    userInfo,           \* useState(null): <<>> or <<[address, storagePath]>>
    isLoading,          \* useState(false)
    loginMethod,        \* useState(null): "null" | "metamask" | "fingerprint"   (tsx)
    username,           \* useState(''), the text of the input                  (tsx)
    showUsernameForm,   \* useState(false)                                      (tsx)
    existingUsername,   \* useState('')                                         (tsx)
    inflight,           \* bag of requests issued and not yet settled
    unhandled           \* an exception escaped an async handler

vars == <<variant, ethereum, account, contract, fingerprintData, status, userInfo,
          isLoading, loginMethod, username, showUsernameForm, existingUsername,
          inflight, unhandled>>

-----------------------------------------------------------------------------
(* Bounds of the model *)

MaxLen == 2         \* longest text typed into the username input
MaxAccounts == 2    \* longest account list the provider returns
MaxInFlight == 2    \* most requests unsettled at once
MaxDirect == 1      \* a direct call issues a request only below this many unsettled

-----------------------------------------------------------------------------
(* Values *)

Whitespace == {" "}
Char == {" ", "a"}
RECURSIVE SeqsUpTo(_, _)
SeqsUpTo(S, n) ==
    IF n = 0 THEN {<<>>}
    ELSE LET shorter == SeqsUpTo(S, n - 1)
         IN  shorter \cup {Append(s, c) : s \in shorter, c \in S}

Texts == SeqsUpTo(Char, MaxLen)                  \* what the user can type
Addresses == {"0xa1", "0xb2"}                    \* wallet addresses
AccountLists == SeqsUpTo(Addresses, MaxAccounts) \ {<<>>}
ServerNames == {<<"a">>, <<"b">>}                \* usernames the directory returns
Hash(c) == <<"0", "x">> \o [i \in 1..64 |-> c]   \* a bytes32 as a hex string
Hashes == {Hash("1"), Hash("2")}                 \* fingerprint hashes
Paths == {"/storage/u/"}                         \* storage paths the contract returns

CONTRACT_ADDRESS ==
    IF variant = "tsx" THEN "0x02A325A665Adff460A63B24EaED29C68390b22C4"
    ELSE "YOUR_DEPLOYED_CONTRACT_ADDRESS"

St(text, arg) == [text |-> text, arg |-> arg]
Req(op, addr, data) == [op |-> op, addr |-> addr, data |-> data]
One(r) == SetToBag({r})
Pending(op) == {r \in BagToSet(inflight) : r.op = op}
InFlightCount(op) ==
    LET rs == Pending(op)
        RECURSIVE Sum(_)
        Sum(S) == IF S = {} THEN 0
                  ELSE LET r == CHOOSE x \in S : TRUE
                       IN  CopiesIn(r, inflight) + Sum(S \ {r})
    IN  Sum(rs)
Room == BagCardinality(inflight) < MaxInFlight

(* String.prototype.trim *)
RECURSIVE trimStart(_)
trimStart(s) ==
    IF s = <<>> THEN s
    ELSE IF Head(s) \in Whitespace THEN trimStart(Tail(s)) ELSE s
RECURSIVE trimEnd(_)
trimEnd(s) ==
    IF s = <<>> THEN s
    ELSE IF s[Len(s)] \in Whitespace THEN trimEnd(SubSeq(s, 1, Len(s) - 1)) ELSE s
(* trim left out: the text is tested and sent as typed. *)
trimMissing(s) == s
trim(s) == trimEnd(trimStart(s))

-----------------------------------------------------------------------------
(* What the render shows (App.tsx) *)

SessionView == loginMethod # "null" /\ account # ""
LoginOptionsView == ~SessionView
MetamaskSection == SessionView /\ loginMethod = "metamask"
FingerprintSection == SessionView /\ loginMethod = "fingerprint"
UsernameFormShown == MetamaskSection /\ showUsernameForm
SaveButtonEnabled == UsernameFormShown /\ ~(isLoading \/ trim(username) = <<>>)

-----------------------------------------------------------------------------
Init ==
    /\ variant \in {"tsx", "js"}
    /\ ethereum \in BOOLEAN
    /\ account = ""
    /\ contract = "null"
    /\ fingerprintData = <<>>
    /\ status = IF ~ethereum
                THEN St("Please install MetaMask to use this application.", <<>>)
                ELSE IF variant = "tsx"
                     THEN St("MetaMask detected. Choose a login method.", <<>>)
                     ELSE St("MetaMask detected. Click \"Connect MetaMask\" to continue.", <<>>)
    /\ userInfo = <<>>
    /\ isLoading = FALSE
    /\ loginMethod = "null"
    /\ username = <<>>
    /\ showUsernameForm = FALSE
    /\ existingUsername = <<>>
    /\ inflight = EmptyBag
    /\ unhandled = FALSE

-----------------------------------------------------------------------------
(* Requests and the shapes in which they fail *)

RequestAccounts == Req("eth_requestAccounts", "", <<>>)
Get(a) == Req("GET", a, <<>>)
Post(a, name) == Req("POST", a, name)

(* An axios error: `response` says whether the server answered at all; `data` *)
(* is the parsed body: an object with error 'Username already taken'          *)
(* ("taken"), an object with another error ("other"), an object without an   *)
(* error field ("nofield"), the empty string of an empty body ("empty"), or  *)
(* the value null of a body that is the JSON text null ("null").             *)
AxiosError(response, code, data, message) ==
    [response |-> response, status |-> code, data |-> data, message |-> message]
NetworkError == AxiosError(FALSE, 0, "none", "Network Error")
GetErrors ==
    { AxiosError(TRUE, 404, "nofield", "Request failed with status code 404"),
      AxiosError(TRUE, 500, "nofield", "Request failed with status code 500"),
      NetworkError }
PostErrors ==
    { AxiosError(TRUE, 409, "taken", "Request failed with status code 409"),
      AxiosError(TRUE, 400, "other", "Request failed with status code 400"),
      AxiosError(TRUE, 500, "nofield", "Request failed with status code 500"),
      AxiosError(TRUE, 500, "empty", "Request failed with status code 500"),
      AxiosError(TRUE, 500, "null", "Request failed with status code 500"),
      NetworkError }
ProviderErrors == {"User rejected the request."}
ChainErrors == {"execution reverted"}

-----------------------------------------------------------------------------
(* App.tsx: handlers *)

(* connectWallet without its test of window.ethereum. *)
connectWalletNoCheck ==
    /\ isLoading' = TRUE
    /\ status' = St("Connecting to MetaMask...", <<>>)
    /\ inflight' = inflight (+) One(RequestAccounts)

(* connectWallet up to its await; it writes isLoading, status and the request. *)
connectWallet ==
    IF ethereum
    THEN /\ isLoading' = TRUE
         /\ status' = St("Connecting to MetaMask...", <<>>)
         /\ inflight' = inflight (+) One(RequestAccounts)
    ELSE /\ status' = St("Please install MetaMask!", <<>>)
         /\ UNCHANGED <<isLoading, inflight>>

(* The effect on [checkUserExists]: the requests it issues for account value a. *)
checkUserExists(a) ==
    IF a = "" THEN EmptyBag ELSE One(Get(a))

(* The effect without its dependency list: it runs after every render of a   *)
(* resolved connect, whether or not `account` changed.                       *)
AccountEffectAlways(old, new) ==
    IF variant = "tsx" THEN checkUserExists(new) ELSE EmptyBag

(* The effect runs after a render in which `account` changed (tsx only). *)
AccountEffect(old, new) ==
    IF variant = "tsx" /\ new # old THEN checkUserExists(new) ELSE EmptyBag

(* connectWalletResolved taking the last account of the list, not the first. *)
connectWalletResolvedLast(accounts) ==
    /\ BagIn(RequestAccounts, inflight)
    /\ account' = accounts[Len(accounts)]
    /\ contract' = CONTRACT_ADDRESS
    /\ status' = St("Ready to authenticate", <<>>)
    /\ isLoading' = FALSE
    /\ inflight' = (inflight (-) One(RequestAccounts)) (+) AccountEffect(account, account')
    /\ UNCHANGED <<variant, ethereum, fingerprintData, userInfo, loginMethod, username,
                   showUsernameForm, existingUsername, unhandled>>

(* eth_requestAccounts resolved: the rest of connectWallet's try block. *)
connectWalletResolved(accounts) ==
    /\ BagIn(RequestAccounts, inflight)
    /\ account' = accounts[1]
    /\ contract' = CONTRACT_ADDRESS
    /\ status' = St("Ready to authenticate", <<>>)
    /\ isLoading' = FALSE
    /\ inflight' = (inflight (-) One(RequestAccounts)) (+) AccountEffect(account, account')
    /\ UNCHANGED <<variant, ethereum, fingerprintData, userInfo, loginMethod, username,
                   showUsernameForm, existingUsername, unhandled>>

(* eth_requestAccounts rejected: catch and finally of connectWallet. *)
connectWalletRejected(message) ==
    /\ BagIn(RequestAccounts, inflight)
    /\ status' = St("Error connecting: %", <<message>>)
    /\ isLoading' = FALSE
    /\ inflight' = inflight (-) One(RequestAccounts)
    /\ UNCHANGED <<variant, ethereum, account, contract, fingerprintData, userInfo,
                   loginMethod, username, showUsernameForm, existingUsername, unhandled>>

handleLoginMethodSelect(method) ==
    /\ loginMethod' = method
    /\ IF method = "metamask"
       THEN connectWallet
       ELSE /\ status' = St("Fingerprint authentication selected", <<>>)
            /\ UNCHANGED <<isLoading, inflight>>
    /\ UNCHANGED <<variant, ethereum, account, contract, fingerprintData, userInfo,
                   username, showUsernameForm, existingUsername, unhandled>>

(* GET /user/{account} answered 200 {username: name}. *)
checkUserExistsResolved(r, name) ==
    /\ r \in Pending("GET")
    /\ existingUsername' = name
    /\ status' = St("Welcome back, %!", name)
    /\ inflight' = inflight (-) One(r)
    /\ UNCHANGED <<variant, ethereum, account, contract, fingerprintData, userInfo,
                   isLoading, loginMethod, username, showUsernameForm, unhandled>>

(* checkUserExistsRejected showing the form for a 404 only. *)
checkUserExistsRejected404Only(r, error) ==
    /\ r \in Pending("GET")
    /\ showUsernameForm' = (showUsernameForm \/ (error.response /\ error.status = 404))
    /\ status' = IF error.response /\ error.status = 404
                 THEN St("Please choose a username for your account.", <<>>)
                 ELSE St("Error checking user account. Please try again.", <<>>)
    /\ inflight' = inflight (-) One(r)
    /\ UNCHANGED <<variant, ethereum, account, contract, fingerprintData, userInfo,
                   isLoading, loginMethod, username, existingUsername, unhandled>>

(* GET /user/{account} failed: the catch of checkUserExists. *)
checkUserExistsRejected(r, error) ==
    /\ r \in Pending("GET")
    /\ showUsernameForm' = TRUE
    /\ status' = IF error.response /\ error.status = 404
                 THEN St("Please choose a username for your account.", <<>>)
                 ELSE St("Error checking user account. Please try again.", <<>>)
    /\ inflight' = inflight (-) One(r)
    /\ UNCHANGED <<variant, ethereum, account, contract, fingerprintData, userInfo,
                   isLoading, loginMethod, username, existingUsername, unhandled>>

(* onChange of the username input. *)
setUsername(text) ==
    /\ username' = text
    /\ UNCHANGED <<variant, ethereum, account, contract, fingerprintData, status, userInfo,
                   isLoading, loginMethod, showUsernameForm, existingUsername, inflight,
                   unhandled>>

(* saveUsername up to its await. *)
saveUsername ==
    /\ IF trim(username) = <<>>
       THEN /\ status' = St("Please enter a valid username", <<>>)
            /\ UNCHANGED <<isLoading, inflight>>
       ELSE /\ isLoading' = TRUE
            /\ status' = St("Saving username...", <<>>)
            /\ inflight' = inflight (+) One(Post(account, trim(username)))
    /\ UNCHANGED <<variant, ethereum, account, contract, fingerprintData, userInfo,
                   loginMethod, username, showUsernameForm, existingUsername, unhandled>>

(* saveUsernameResolved storing the text that was sent, not the name returned. *)
saveUsernameResolvedLocal(r, name) ==
    /\ r \in Pending("POST")
    /\ existingUsername' = r.data
    /\ showUsernameForm' = FALSE
    /\ status' = St("Username saved successfully! Welcome, %!", r.data)
    /\ isLoading' = FALSE
    /\ inflight' = inflight (-) One(r)
    /\ UNCHANGED <<variant, ethereum, account, contract, fingerprintData, userInfo,
                   loginMethod, username, unhandled>>

(* POST /user answered 200 {username: name}. *)
saveUsernameResolved(r, name) ==
    /\ r \in Pending("POST")
    /\ existingUsername' = name
    /\ showUsernameForm' = FALSE
    /\ status' = St("Username saved successfully! Welcome, %!", name)
    /\ isLoading' = FALSE
    /\ inflight' = inflight (-) One(r)
    /\ UNCHANGED <<variant, ethereum, account, contract, fingerprintData, userInfo,
                   loginMethod, username, unhandled>>

(* saveUsernameRejected without the branch for 'Username already taken'. *)
saveUsernameRejectedGeneric(r, error) ==
    /\ r \in Pending("POST")
    /\ status' = St("Error saving username: %", <<error.message>>)
    /\ isLoading' = FALSE
    /\ inflight' = inflight (-) One(r)
    /\ UNCHANGED <<variant, ethereum, account, contract, fingerprintData, userInfo,
                   loginMethod, username, showUsernameForm, existingUsername, unhandled>>

(* saveUsernameRejected with setIsLoading(false) at the end of the catch     *)
(* block instead of in a finally: a throw inside the catch skips it.        *)
saveUsernameRejectedNoFinally(r, error) ==
    /\ r \in Pending("POST")
    /\ IF error.response /\ error.data = "null"
       THEN /\ unhandled' = TRUE
            /\ UNCHANGED <<status, isLoading>>
       ELSE /\ status' = IF error.response /\ error.data = "taken"
                         THEN St("Username already taken. Please choose another one.", <<>>)
                         ELSE St("Error saving username: %", <<error.message>>)
            /\ isLoading' = FALSE
            /\ UNCHANGED unhandled
    /\ inflight' = inflight (-) One(r)
    /\ UNCHANGED <<variant, ethereum, account, contract, fingerprintData, userInfo,
                   loginMethod, username, showUsernameForm, existingUsername>>

(* POST /user failed: catch and finally of saveUsername.  Reading              *)
(* error.response.data.error throws a TypeError when data is null; the throw   *)
(* leaves the catch block, finally still runs, and the promise that saveUsername *)
(* returned rejects with nobody handling it.                                   *)
saveUsernameRejected(r, error) ==
    /\ r \in Pending("POST")
    /\ IF error.response /\ error.data = "null"
       THEN /\ unhandled' = TRUE
            /\ UNCHANGED status
       ELSE /\ status' = IF error.response /\ error.data = "taken"
                         THEN St("Username already taken. Please choose another one.", <<>>)
                         ELSE St("Error saving username: %", <<error.message>>)
            /\ UNCHANGED unhandled
    /\ isLoading' = FALSE
    /\ inflight' = inflight (-) One(r)
    /\ UNCHANGED <<variant, ethereum, account, contract, fingerprintData, userInfo,
                   loginMethod, username, showUsernameForm, existingUsername>>

(* simulateFingerprintScan: hash is the keccak256 of a random string. *)
simulateFingerprintScan(hash) ==
    fingerprintData' = hash

resetLoginMethod ==
    /\ loginMethod' = "null"
    /\ fingerprintData' = <<>>
    /\ UNCHANGED <<variant, ethereum, account, contract, status, userInfo, isLoading,
                   username, showUsernameForm, existingUsername, inflight, unhandled>>

-----------------------------------------------------------------------------
(* App.tsx: events *)

ClickLoginOption ==
    /\ variant = "tsx"
    /\ LoginOptionsView
    /\ ~isLoading
    /\ \E method \in {"metamask", "fingerprint"} :
          /\ (method = "metamask" /\ ethereum) => Room
          /\ handleLoginMethodSelect(method)

ConnectResolved ==
    \E accounts \in AccountLists : connectWalletResolved(accounts)

ConnectRejected ==
    \E message \in ProviderErrors : connectWalletRejected(message)

LookupResolved ==
    \E r \in Pending("GET") : \E name \in ServerNames : checkUserExistsResolved(r, name)

LookupRejected ==
    \E r \in Pending("GET") : \E error \in GetErrors : checkUserExistsRejected(r, error)

TypeUsername ==
    /\ variant = "tsx"
    /\ UsernameFormShown
    /\ ~isLoading
    /\ \E text \in Texts : setUsername(text)

ClickSaveUsername ==
    /\ variant = "tsx"
    /\ SaveButtonEnabled
    /\ Room
    /\ saveUsername

SaveResolved ==
    \E r \in Pending("POST") : \E name \in ServerNames : saveUsernameResolved(r, name)

SaveRejected ==
    \E r \in Pending("POST") : \E error \in PostErrors : saveUsernameRejected(r, error)

ClickScanTsx ==
    /\ variant = "tsx"
    /\ FingerprintSection
    /\ ~isLoading
    /\ \E hash \in Hashes : simulateFingerprintScan(hash)
    /\ UNCHANGED <<variant, ethereum, account, contract, status, userInfo, isLoading,
                   loginMethod, username, showUsernameForm, existingUsername, inflight,
                   unhandled>>

ClickBack ==
    /\ variant = "tsx"
    /\ MetamaskSection \/ FingerprintSection
    /\ resetLoginMethod

NextTsx ==
    \/ ClickLoginOption
    \/ LookupResolved
    \/ LookupRejected
    \/ TypeUsername
    \/ ClickSaveUsername
    \/ SaveResolved
    \/ SaveRejected
    \/ ClickScanTsx
    \/ ClickBack

-----------------------------------------------------------------------------
(* App.js: handlers *)

(* String.prototype.substring(from, to) on a string held as a sequence. *)
substring(s, from, to) ==
    SubSeq(s, from + 1, IF to < Len(s) THEN to ELSE Len(s))

(* handleScanFingerprint: hash is formatBytes32String of a random string. *)
handleScanFingerprint(hash) ==
    /\ simulateFingerprintScan(hash)
    /\ status' = St("Fingerprint scanned: %...", substring(hash, 0, 20))

(* registerUser without its test of the contract handle. *)
registerUserNoCheck ==
    /\ isLoading' = TRUE
    /\ status' = St("Registering...", <<>>)
    /\ inflight' = inflight (+) One(Req("registerUser", account, fingerprintData))
    /\ UNCHANGED <<variant, ethereum, account, contract, fingerprintData, userInfo,
                   loginMethod, username, showUsernameForm, existingUsername, unhandled>>

(* registerUser up to its first await. *)
registerUser ==
    /\ IF contract = "null"
       THEN /\ status' = St("Please connect wallet first", <<>>)
            /\ UNCHANGED <<isLoading, inflight>>
       ELSE /\ isLoading' = TRUE
            /\ status' = St("Registering...", <<>>)
            /\ inflight' = inflight (+) One(Req("registerUser", account, fingerprintData))
    /\ UNCHANGED <<variant, ethereum, account, contract, fingerprintData, userInfo,
                   loginMethod, username, showUsernameForm, existingUsername, unhandled>>

(* registerUserSent reporting success without awaiting transaction.wait(). *)
registerUserSentNoWait(r) ==
    /\ r \in Pending("registerUser")
    /\ status' = St("Registration successful!", <<>>)
    /\ isLoading' = FALSE
    /\ inflight' = inflight (-) One(r)
    /\ UNCHANGED <<variant, ethereum, account, contract, fingerprintData, userInfo,
                   loginMethod, username, showUsernameForm, existingUsername, unhandled>>

(* contract.registerUser resolved with the transaction: await transaction.wait(). *)
registerUserSent(r) ==
    /\ r \in Pending("registerUser")
    /\ status' = St("Transaction sent. Waiting for confirmation...", <<>>)
    /\ inflight' = (inflight (-) One(r)) (+) One(Req("wait", r.addr, r.data))
    /\ UNCHANGED <<variant, ethereum, account, contract, fingerprintData, userInfo,
                   isLoading, loginMethod, username, showUsernameForm, existingUsername,
                   unhandled>>

(* transaction.wait() resolved. *)
registerUserConfirmed(r) ==
    /\ r \in Pending("wait")
    /\ status' = St("Registration successful!", <<>>)
    /\ isLoading' = FALSE
    /\ inflight' = inflight (-) One(r)
    /\ UNCHANGED <<variant, ethereum, account, contract, fingerprintData, userInfo,
                   loginMethod, username, showUsernameForm, existingUsername, unhandled>>

(* contract.registerUser or transaction.wait() rejected: catch and finally. *)
registerUserRejected(r, message) ==
    /\ r \in Pending("registerUser") \cup Pending("wait")
    /\ status' = St("Registration failed: %", <<message>>)
    /\ isLoading' = FALSE
    /\ inflight' = inflight (-) One(r)
    /\ UNCHANGED <<variant, ethereum, account, contract, fingerprintData, userInfo,
                   loginMethod, username, showUsernameForm, existingUsername, unhandled>>

(* loginWithFingerprint up to its await; r.addr keeps the `account` of the  *)
(* render whose handler was called, which the comparison after the await uses. *)
loginWithFingerprint ==
    /\ IF contract = "null"
       THEN /\ status' = St("Please connect wallet first", <<>>)
            /\ UNCHANGED <<isLoading, inflight>>
       ELSE /\ isLoading' = TRUE
            /\ status' = St("Verifying fingerprint...", <<>>)
            /\ inflight' = inflight (+) One(Req("verifyFingerprint", account, fingerprintData))
    /\ UNCHANGED <<variant, ethereum, account, contract, fingerprintData, userInfo,
                   loginMethod, username, showUsernameForm, existingUsername, unhandled>>

(* loginWithFingerprintResolved without the comparison with account. *)
loginWithFingerprintResolvedNoCompare(r, userAddress, storagePath) ==
    /\ r \in Pending("verifyFingerprint")
    /\ userInfo' = <<[address |-> userAddress, storagePath |-> storagePath]>>
    /\ status' = St("Login successful!", <<>>)
    /\ isLoading' = FALSE
    /\ inflight' = inflight (-) One(r)
    /\ UNCHANGED <<variant, ethereum, account, contract, fingerprintData, loginMethod,
                   username, showUsernameForm, existingUsername, unhandled>>

(* contract.verifyFingerprint resolved with [userAddress, storagePath]. *)
loginWithFingerprintResolved(r, userAddress, storagePath) ==
    /\ r \in Pending("verifyFingerprint")
    /\ IF userAddress = r.addr
       THEN /\ userInfo' = <<[address |-> userAddress, storagePath |-> storagePath]>>
            /\ status' = St("Login successful!", <<>>)
       ELSE /\ status' = St("Fingerprint does not match this account", <<>>)
            /\ UNCHANGED userInfo
    /\ isLoading' = FALSE
    /\ inflight' = inflight (-) One(r)
    /\ UNCHANGED <<variant, ethereum, account, contract, fingerprintData, loginMethod,
                   username, showUsernameForm, existingUsername, unhandled>>

(* contract.verifyFingerprint rejected: catch and finally. *)
loginWithFingerprintRejected(r, message) ==
    /\ r \in Pending("verifyFingerprint")
    /\ status' = St("Verification failed: %", <<message>>)
    /\ isLoading' = FALSE
    /\ inflight' = inflight (-) One(r)
    /\ UNCHANGED <<variant, ethereum, account, contract, fingerprintData, userInfo,
                   loginMethod, username, showUsernameForm, existingUsername, unhandled>>

-----------------------------------------------------------------------------
(* App.js: events *)

(* The Connect button rendered whether or not account is set. *)
ClickConnectAlways ==
    /\ variant = "js"
    /\ ~isLoading
    /\ ethereum => Room
    /\ connectWallet
    /\ UNCHANGED <<variant, ethereum, account, contract, fingerprintData, userInfo,
                   loginMethod, username, showUsernameForm, existingUsername, unhandled>>

ClickConnect ==
    /\ variant = "js"
    /\ account = ""
    /\ ~isLoading
    /\ ethereum => Room
    /\ connectWallet
    /\ UNCHANGED <<variant, ethereum, account, contract, fingerprintData, userInfo,
                   loginMethod, username, showUsernameForm, existingUsername, unhandled>>

(* The Scan button without its disabled={isLoading}. *)
ClickScanWhileBusy ==
    /\ variant = "js"
    /\ account # ""
    /\ \E hash \in Hashes : handleScanFingerprint(hash)
    /\ UNCHANGED <<variant, ethereum, account, contract, userInfo, isLoading, loginMethod,
                   username, showUsernameForm, existingUsername, inflight, unhandled>>

ClickScan ==
    /\ variant = "js"
    /\ account # ""
    /\ ~isLoading
    /\ \E hash \in Hashes : handleScanFingerprint(hash)
    /\ UNCHANGED <<variant, ethereum, account, contract, userInfo, isLoading, loginMethod,
                   username, showUsernameForm, existingUsername, inflight, unhandled>>

ClickRegister ==
    /\ variant = "js"
    /\ account # ""
    /\ ~(fingerprintData = <<>> \/ isLoading)
    /\ Room
    /\ registerUser

RegisterSent ==
    \E r \in Pending("registerUser") : registerUserSent(r)

RegisterConfirmed ==
    \E r \in Pending("wait") : registerUserConfirmed(r)

RegisterRejected ==
    \E r \in Pending("registerUser") \cup Pending("wait") :
        \E message \in ChainErrors : registerUserRejected(r, message)

ClickLogin ==
    /\ variant = "js"
    /\ account # ""
    /\ ~(fingerprintData = <<>> \/ isLoading)
    /\ Room
    /\ loginWithFingerprint

LoginResolved ==
    \E r \in Pending("verifyFingerprint") :
        \E userAddress \in Addresses \cup {"0x00"} : \E storagePath \in Paths \cup {""} :
            loginWithFingerprintResolved(r, userAddress, storagePath)

LoginRejected ==
    \E r \in Pending("verifyFingerprint") :
        \E message \in ChainErrors : loginWithFingerprintRejected(r, message)

NextJs ==
    \/ ClickConnect
    \/ ClickScan
    \/ ClickRegister
    \/ RegisterSent
    \/ RegisterConfirmed
    \/ RegisterRejected
    \/ ClickLogin
    \/ LoginResolved
    \/ LoginRejected

-----------------------------------------------------------------------------
(* The controller driven through its rendered controls. *)

Next ==
    \/ NextTsx
    \/ NextJs
    \/ ConnectResolved
    \/ ConnectRejected

Spec == Init /\ [][Next]_vars

(* The same, with every issued request eventually resolving or rejecting. *)
Fairness ==
    /\ WF_vars(ConnectResolved \/ ConnectRejected)
    /\ WF_vars(LookupResolved \/ LookupRejected)
    /\ WF_vars(SaveResolved \/ SaveRejected)
    /\ WF_vars(RegisterSent \/ RegisterConfirmed \/ RegisterRejected)
    /\ WF_vars(LoginResolved \/ LoginRejected)

SpecLive == Spec /\ Fairness

-----------------------------------------------------------------------------
(* The controller with its handlers also called directly, whatever the render *)
(* enables: a disabled button keeps the user from a handler, not a caller.    *)

CallSaveUsername ==
    /\ variant = "tsx"
    /\ trim(username) # <<>> => BagCardinality(inflight) < MaxDirect
    /\ saveUsername

CallRegisterUser ==
    /\ variant = "js"
    /\ contract # "null" => BagCardinality(inflight) < MaxDirect
    /\ registerUser

CallLoginWithFingerprint ==
    /\ variant = "js"
    /\ contract # "null" => BagCardinality(inflight) < MaxDirect
    /\ loginWithFingerprint

NextOps ==
    \/ Next
    \/ CallSaveUsername
    \/ CallRegisterUser
    \/ CallLoginWithFingerprint

SpecOps == Init /\ [][NextOps]_vars

-----------------------------------------------------------------------------
(* Vocabulary of the properties *)

IsBlank(s) == \A i \in 1..Len(s) : s[i] \in Whitespace
InProgressTexts ==
    {"Connecting to MetaMask...", "Saving username...", "Registering...",
     "Transaction sent. Waiting for confirmation...", "Verifying fingerprint..."}
BusyOps == {"eth_requestAccounts", "POST", "registerUser", "wait", "verifyFingerprint"}
ConflictStatus == St("Username already taken. Please choose another one.", <<>>)

-----------------------------------------------------------------------------
(* C1: for every session state and every username that is empty or only    *)
(* whitespace, saveUsername issues no POST, sets the status to the          *)
(* validation message and leaves isLoading, existingUsername and            *)
(* showUsernameForm as they were.                                           *)
C1_BlankUsernameRejected ==
    [][(variant = "tsx" /\ IsBlank(username) /\ saveUsername)
         => /\ inflight' = inflight
            /\ status' = St("Please enter a valid username", <<>>)
            /\ UNCHANGED <<isLoading, existingUsername, showUsernameForm>>]_vars

C1_Witness ==
    /\ variant = "tsx"
    /\ username # <<>>
    /\ IsBlank(username)
    /\ status = St("Please enter a valid username", <<>>)
    /\ account # ""

(* C2: a lookup for the connected address that completes with 200 leaves    *)
(* the session in HasUsername: existingUsername is the returned name and    *)
(* the username form is not shown.                                          *)
C2_LookupOkHasUsername ==
    [][\A r \in Pending("GET") : \A name \in ServerNames :
          (r.addr = account /\ checkUserExistsResolved(r, name))
            => (existingUsername' = name /\ ~showUsernameForm')]_vars

(* C3: a lookup that completes with 404 leaves the session in NeedsUsername *)
(* with no display name stored.                                             *)
C3_LookupNotFoundNoName ==
    [][\A r \in Pending("GET") : \A error \in GetErrors :
          (error.response /\ error.status = 404 /\ checkUserExistsRejected(r, error))
            => (showUsernameForm' /\ existingUsername' = <<>>)]_vars

(* C4: a 'Username already taken' answer to the POST leaves the form shown  *)
(* and the stored name unchanged, clears isLoading and sets the conflict    *)
(* message, not the generic one.                                            *)
C4_ConflictKeepsForm ==
    [][\A r \in Pending("POST") : \A error \in PostErrors :
          (error.response /\ error.data = "taken" /\ saveUsernameRejected(r, error))
            => /\ showUsernameForm'
               /\ UsernameFormShown => UsernameFormShown'
               /\ existingUsername' = existingUsername
               /\ ~isLoading'
               /\ status' = ConflictStatus
               /\ status'.text # "Error saving username: %"]_vars

C4_Witness ==
    /\ status = ConflictStatus
    /\ UsernameFormShown
    /\ ~isLoading
    /\ Pending("POST") = {}

(* C5: the back action brings the session to Disconnected and discards the  *)
(* credential and session data: loginMethod none, fingerprintData empty,    *)
(* account, contract and existingUsername cleared.                          *)
C5_BackDiscardsSession ==
    [][ClickBack
         => /\ LoginOptionsView'
            /\ loginMethod' = "null"
            /\ fingerprintData' = <<>>
            /\ account' = ""
            /\ contract' = "null"
            /\ existingUsername' = <<>>]_vars

(* C6: loginMethod is none unless a wallet connect has succeeded or the     *)
(* fingerprint option was selected.                                         *)
C6_MethodNoneUntilSuccess ==
    variant = "tsx" => (loginMethod = "null" \/ loginMethod = "fingerprint" \/ account # "")

(* C7: of each kind of request at most one is in flight.                    *)
C7_OneRequestPerAction ==
    \A op \in BusyOps \cup {"GET"} : InFlightCount(op) <= 1

(* C8: every failing external call ends its action with isLoading false, a  *)
(* failure status in place of the in-progress one, and no escaped exception. *)
C8_FailureReported ==
    [][/\ (\E m \in ProviderErrors : connectWalletRejected(m))
            => (~isLoading' /\ status'.text = "Error connecting: %" /\ ~unhandled')
       /\ (\E r \in Pending("GET") : \E e \in GetErrors : checkUserExistsRejected(r, e))
            => (status'.text \notin InProgressTexts /\ ~unhandled')
       /\ (\E r \in Pending("POST") : \E e \in PostErrors : saveUsernameRejected(r, e))
            => (~isLoading' /\ status'.text \notin InProgressTexts /\ ~unhandled')
       /\ RegisterRejected
            => (~isLoading' /\ status'.text = "Registration failed: %" /\ ~unhandled')
       /\ LoginRejected
            => (~isLoading' /\ status'.text = "Verification failed: %" /\ ~unhandled')]_vars

(* C9: account is empty until an eth_requestAccounts call has resolved, a   *)
(* resolved call sets it to the first entry of the returned list, and a     *)
(* rejected call leaves account and contract as they were when it was made. *)
C9_AccountFromConnect ==
    /\ account = "" /\ contract = "null"
    /\ [][/\ (account' # account \/ contract' # contract) => ConnectResolved
          /\ \A accounts \in AccountLists :
                connectWalletResolved(accounts) => account' = accounts[1]
          /\ ConnectRejected => UNCHANGED <<account, contract>>]_vars
    /\ [](InFlightCount("eth_requestAccounts") <= 1)

C9_Witness ==
    /\ account \in Addresses
    /\ contract # "null"
    /\ status.text = "Error connecting: %"

(* C10: with no wallet provider, selecting the wallet option issues no      *)
(* request, never sets isLoading, leaves account empty, sets the status to  *)
(* the installation message and the login options stay on screen.          *)
C10_NoProviderNoRequest ==
    /\ [][(variant = "tsx" /\ ~ethereum /\ handleLoginMethodSelect("metamask"))
            => /\ inflight' = inflight
               /\ ~isLoading /\ ~isLoading'
               /\ account' = ""
               /\ status' = St("Please install MetaMask!", <<>>)
               /\ LoginOptionsView']_vars
    /\ []((variant = "tsx" /\ ~ethereum)
            => (inflight = EmptyBag /\ ~isLoading /\ account = "" /\ LoginOptionsView))

C10_Witness ==
    /\ variant = "tsx"
    /\ ~ethereum
    /\ loginMethod = "metamask"
    /\ status = St("Please install MetaMask!", <<>>)


(* C11: in a fresh session (no wallet ever connected) selecting the          *)
(* fingerprint option issues no request and makes the scan available.       *)
ScanAvailable == variant = "tsx" /\ FingerprintSection /\ ~isLoading
C11_FingerprintSelectScanReady ==
    [][(variant = "tsx" /\ account = "" /\ ClickLoginOption
          /\ loginMethod' = "fingerprint")
         => (inflight' = inflight /\ ScanAvailable')]_vars

(* C12: when the POST succeeds existingUsername becomes the name the server *)
(* returned, the form is hidden, isLoading is cleared, and the request      *)
(* carried the connected account and the trimmed username.                  *)
IsTrimOf(t, s) ==
    /\ t = <<>> \/ (t[1] \notin Whitespace /\ t[Len(t)] \notin Whitespace)
    /\ \E i \in 0..Len(s) : \E j \in 0..(Len(s) - i) :
          /\ t = SubSeq(s, i + 1, Len(s) - j)
          /\ IsBlank(SubSeq(s, 1, i))
          /\ IsBlank(SubSeq(s, Len(s) - j + 1, Len(s)))
C12_SaveStoresServerName ==
    [][\A r \in Pending("POST") : \A name \in ServerNames :
          saveUsernameResolved(r, name)
            => /\ existingUsername' = name
               /\ ~showUsernameForm'
               /\ ~isLoading'
               /\ r.addr = account
               /\ account # ""
               /\ IsTrimOf(r.data, username)]_vars

C12_Witness ==
    /\ status.text = "Username saved successfully! Welcome, %!"
    /\ existingUsername \in ServerNames
    /\ existingUsername # trim(username)
    /\ username # trim(username)
    /\ ~showUsernameForm
    /\ ~isLoading


(* C13: 'Registration successful!' is reported only when transaction.wait() *)
(* resolves, wait() is called only when contract.registerUser resolved, and *)
(* a rejection of either ends the invocation with the failure message.      *)
RegistrationSuccess == St("Registration successful!", <<>>)
C13_SuccessAfterWait ==
    [][/\ (status' = RegistrationSuccess /\ status # RegistrationSuccess)
            => /\ status = St("Transaction sent. Waiting for confirmation...", <<>>)
               /\ \E r \in Pending("wait") : registerUserConfirmed(r)
       /\ (InFlightCount("wait")' > InFlightCount("wait"))
            => /\ status = St("Registering...", <<>>)
               /\ \E r \in Pending("registerUser") : registerUserSent(r)
       /\ RegisterRejected
            => /\ status'.text = "Registration failed: %"
               /\ ~isLoading'
               /\ Pending("registerUser")' = {} /\ Pending("wait")' = {}]_vars

C13_Witness ==
    /\ variant = "js"
    /\ status = RegistrationSuccess
    /\ ~isLoading
    /\ inflight = EmptyBag

(* C14: a resolved verifyFingerprint records userInfo and reports success   *)
(* exactly when the returned owner is the connected account; otherwise it   *)
(* reports the mismatch and leaves userInfo as it was.                      *)
C14_LoginIffOwnerMatches ==
    [][\A r \in Pending("verifyFingerprint") :
         \A userAddress \in Addresses \cup {"0x00"} : \A storagePath \in Paths \cup {""} :
            loginWithFingerprintResolved(r, userAddress, storagePath)
              => IF userAddress = account
                 THEN /\ status' = St("Login successful!", <<>>)
                      /\ userInfo' = <<[address |-> userAddress,
                                        storagePath |-> storagePath]>>
                 ELSE /\ status' = St("Fingerprint does not match this account", <<>>)
                      /\ userInfo' = userInfo]_vars

C14_Witness ==
    /\ variant = "js"
    /\ status = St("Fingerprint does not match this account", <<>>)
    /\ userInfo # <<>>
    /\ userInfo[1].address = account


(* C15: in both variants a scan issues no request, replaces the credential  *)
(* by the new hash, reports a truncated preview of that hash in the status  *)
(* and leaves account, contract, loginMethod, existingUsername and          *)
(* isLoading as they were.                                                  *)
IsPreviewOf(p, h) ==
    /\ 0 < Len(p) /\ Len(p) < Len(h)
    /\ p = SubSeq(h, 1, Len(p))
C15_ScanLocalWithPreview ==
    [][(ClickScan \/ ClickScanTsx)
         => /\ inflight' = inflight
            /\ fingerprintData' \in Hashes
            /\ IsPreviewOf(status'.arg, fingerprintData')
            /\ UNCHANGED <<account, contract, loginMethod, existingUsername,
                           isLoading>>]_vars


(* C16: if every issued request eventually resolves or rejects, every state *)
(* with isLoading true is followed by one with isLoading false, whatever    *)
(* the user does in between.                                                *)
C16_BusyEventuallyCleared == isLoading ~> ~isLoading

C16_Witness ==
    /\ ~isLoading
    /\ unhandled
    /\ status = St("Saving username...", <<>>)
    /\ inflight = EmptyBag


(* C17: a lookup that fails with anything but a 404 also shows the username *)
(* form, and sets a status other than the one a 404 sets.                   *)
NotFoundStatus == St("Please choose a username for your account.", <<>>)
C17_OtherLookupErrorShowsForm ==
    [][\A r \in Pending("GET") : \A error \in GetErrors :
          checkUserExistsRejected(r, error)
            => /\ showUsernameForm'
               /\ MetamaskSection => UsernameFormShown'
               /\ (error.response /\ error.status = 404) => status' = NotFoundStatus
               /\ ~(error.response /\ error.status = 404)
                    => /\ status' # NotFoundStatus
                       /\ status'.text \notin InProgressTexts]_vars

C17_Witness ==
    /\ status = St("Error checking user account. Please try again.", <<>>)
    /\ UsernameFormShown
    /\ existingUsername = <<>>


(* C18: the answer to a lookup for an address that is no longer the         *)
(* connected one never changes the display name or the form visibility.     *)
C18_StaleLookupIgnored ==
    [][\A r \in Pending("GET") :
          (/\ r.addr # account
           /\ \/ \E name \in ServerNames : checkUserExistsResolved(r, name)
              \/ \E error \in GetErrors : checkUserExistsRejected(r, error))
            => UNCHANGED <<existingUsername, showUsernameForm>>]_vars


(* C19: a lookup is issued only for a non-empty account and exactly once    *)
(* per change of account: none before a connect succeeds, and none when a   *)
(* later connect returns the address already stored.                        *)
GetCount(a) == CopiesIn(Get(a), inflight)
C19_LookupOncePerAccountChange ==
    /\ [](GetCount("") = 0)
    /\ []((variant = "tsx" /\ account = "") => Pending("GET") = {})
    /\ [][/\ \A a \in Addresses \cup {""} :
                GetCount(a)' > GetCount(a)
                  => /\ a # "" /\ account # a /\ account' = a
                     /\ GetCount(a)' = GetCount(a) + 1
          /\ (variant = "tsx" /\ account' # account)
                => CopiesIn(Get(account'), inflight')
                     = CopiesIn(Get(account'), inflight) + 1
          /\ (ConnectResolved /\ account' = account)
                => InFlightCount("GET")' = InFlightCount("GET")]_vars

C19_Witness ==
    /\ variant = "tsx"
    /\ account \in Addresses
    /\ status = St("Ready to authenticate", <<>>)
    /\ showUsernameForm
    /\ existingUsername = <<>>
    /\ inflight = EmptyBag


(* C20: registerUser and loginWithFingerprint called while there is no      *)
(* contract handle make no contract call, do not set isLoading, set the     *)
(* status to 'Please connect wallet first' and leave fingerprintData,       *)
(* account and userInfo as they were.                                       *)
C20_NoContractNoCall ==
    [][(variant = "js" /\ contract = "null" /\ (registerUser \/ loginWithFingerprint))
         => /\ inflight' = inflight
            /\ isLoading' = isLoading
            /\ status' = St("Please connect wallet first", <<>>)
            /\ UNCHANGED <<fingerprintData, account, userInfo>>]_vars

C20_Witness ==
    /\ variant = "js"
    /\ contract = "null"
    /\ account = ""
    /\ status = St("Please connect wallet first", <<>>)



(* C21: in App.js, through the rendered controls, every contract call is    *)
(* issued with a non-empty fingerprint hash from a render with a non-empty  *)
(* account, and while a contract call is in flight the controls are busy    *)
(* and fingerprintData stays the hash the call was issued with.             *)
ChainOps == {"registerUser", "wait", "verifyFingerprint"}
ChainCalls == {r \in BagToSet(inflight) : r.op \in ChainOps}
C21_ChainCallHasHashAndAccount ==
    /\ [](\A r \in ChainCalls :
             /\ r.data # <<>> /\ r.addr # ""
             /\ r.data = fingerprintData /\ r.addr = account
             /\ isLoading)
    /\ [][(ClickRegister \/ ClickLogin)
            => /\ fingerprintData # <<>> /\ account # ""
               /\ \E op \in {"registerUser", "verifyFingerprint"} :
                     inflight' = inflight (+) One(Req(op, account, fingerprintData))]_vars
    /\ [][ChainCalls # {} => fingerprintData' = fingerprintData]_vars

C21_Witness ==
    /\ variant = "js"
    /\ status = St("Transaction sent. Waiting for confirmation...", <<>>)
    /\ isLoading
    /\ Pending("wait") = {Req("wait", account, fingerprintData)}
    /\ fingerprintData = Hash("2")



(* C22: in App.js, whenever userInfo is set its address is the connected    *)
(* account; userInfo changes only when a verifyFingerprint resolves with    *)
(* the connected account as owner; and a verification that is rejected or   *)
(* returns another owner leaves userInfo as it was.                         *)
C22_UserInfoIsVerifiedMatch ==
    /\ [](userInfo # <<>>
            => /\ variant = "js"
               /\ account # ""
               /\ userInfo[1].address = account)
    /\ [][userInfo' # userInfo
            => \E r \in Pending("verifyFingerprint") : \E storagePath \in Paths \cup {""} :
                  /\ loginWithFingerprintResolved(r, account, storagePath)
                  /\ userInfo' = <<[address |-> account, storagePath |-> storagePath]>>]_vars
    /\ [][(\/ LoginRejected
           \/ \E r \in Pending("verifyFingerprint") :
                 \E userAddress \in (Addresses \cup {"0x00"}) \ {account} :
                   \E storagePath \in Paths \cup {""} :
                     loginWithFingerprintResolved(r, userAddress, storagePath))
            => userInfo' = userInfo]_vars

C22_Witness ==
    /\ variant = "js"
    /\ userInfo # <<>>
    /\ userInfo[1].address = account
    /\ status.text = "Verification failed: %"
    /\ ~isLoading

====
